---- MODULE Spec2Model ----
(***************************************************************************)
(* Model of the gores-mapgen generation engine: Generator (new, step,      *)
(* fix_edge_bugs, generate_room, post_processing, generate_map) and        *)
(* GenerationConfig::validate.  The walker, map, kernel and sampler        *)
(* modules are modelled from the design document: kernels are squares,     *)
(* the sampler is a draw counter and every draw is a free choice among     *)
(* the outcomes with positive weight.  Momentum, stuck detection, skips    *)
(* and pulse/fade are left out: the profiles used here either put all      *)
(* weight on the best direction with momentum 0 or give every direction    *)
(* positive weight, so repeating the last direction adds no outcome.       *)
(***************************************************************************)
EXTENDS Integers, Sequences, FiniteSets, TLC

VARIABLES
    pc,              \* position inside generate_map / the editor driver
    config,          \* the GenerationConfig borrowed for the run
    max_steps,       \* argument of generate_map
    iter,            \* loop counter of `for _ in 0..max_steps`
    walker,          \* Generator.walker
    map,             \* Generator.map (grid, width, height, spawn)
    rnd,             \* Generator.rnd: its weights and the number of draws made
    wrapped,         \* TRUE once an usize subtraction wrapped (release build)
    step_calls,      \* history: number of calls of Generator::step
    late_calls,      \* history: calls of step made while walker.finished
    pp_runs,         \* history: number of calls of post_processing
    pre_grid,        \* history: grid when fix_edge_bugs started
    edge_bug,        \* value returned by fix_edge_bugs
    validate_result  \* value returned by GenerationConfig::validate

vars == <<pc, config, max_steps, iter, walker, map, rnd, wrapped, step_calls,
          late_calls, pp_runs, pre_grid, edge_bug, validate_result>>

----------------------------------------------------------------------------
(* Bounds of the model.  The program uses a 300 x 300 map with the spawn   *)
(* at (50, 250); the model keeps the spawn RoomMargin + 1 cells away from  *)
(* the nearest edges, the least distance at which the spawn room fits.     *)

Width == 11
Height == 11
SpawnX == 5
SpawnY == 5
MaxSteps == 5
MaxLateCalls == 2
\* stands for 2^64, the modulus of usize arithmetic
UsizeMod == 1000

\* margin passed to generate_room by post_processing
RoomMargin == 4

\* Option<T>: None is the empty tuple, Some(v) the tuple holding v
None == <<>>
Some(v) == <<v>>
Unwrap(o) == o[1]
NoGoal == None

BlockType == {"Empty", "Hookable", "Freeze", "Spawn", "Start", "Finish"}

Cells == (0 .. Width - 1) \X (0 .. Height - 1)

Spawn == <<SpawnX, SpawnY>>

SeqRange(s) == {s[k] : k \in 1 .. Len(s)}

\* the values of an Option<Vec<T>>, none for None
OptionRange(o) == IF o = None THEN {} ELSE SeqRange(Unwrap(o))

----------------------------------------------------------------------------
(* usize arithmetic                                                        *)

\* a - b on usize: the value a release build computes
USub(a, b) == IF a >= b THEN a - b ELSE a - b + UsizeMod

\* a - b on usize overflows (a debug build panics here)
Underflows(a, b) == a < b

----------------------------------------------------------------------------
(* Map: area primitives                                                    *)

InBounds(p) == p[1] >= 0 /\ p[1] < Width /\ p[2] >= 0 /\ p[2] < Height

InRect(c, top_left, bot_right) ==
    /\ top_left[1] <= c[1] /\ c[1] <= bot_right[1]
    /\ top_left[2] <= c[2] /\ c[2] <= bot_right[2]

\* Map::new(width, height, BlockType::Hookable, spawn)
NewMap == [grid   |-> [c \in Cells |-> "Hookable"],
           width  |-> Width,
           height |-> Height,
           spawn  |-> Spawn]

\* Map::set_area: fills the rectangle, clipped at the grid edge; without
\* overwrite only cells that still hold the default (Hookable) are changed
SetArea(grid, top_left, bot_right, value, overwrite) ==
    [c \in Cells |->
        IF InRect(c, top_left, bot_right) /\ (overwrite \/ grid[c] = "Hookable")
        THEN value ELSE grid[c]]

\* Map::set_area_border: the one-cell ring on the rectangle's perimeter
SetAreaBorder(grid, top_left, bot_right, value, overwrite) ==
    LET top_right == <<bot_right[1], top_left[2]>>
        bot_left  == <<top_left[1], bot_right[2]>>
        g1 == SetArea(grid, top_left, top_right, value, overwrite)
        g2 == SetArea(g1, top_right, bot_right, value, overwrite)
        g3 == SetArea(g2, top_left, bot_left, value, overwrite)
    IN  SetArea(g3, bot_left, bot_right, value, overwrite)

----------------------------------------------------------------------------
(* Generator::fix_edge_bugs                                                *)

NoEdgeBugs == [c \in Cells |-> FALSE]

\* mutant: `for dy in 0..2`, the last row of neighbours left out
NeighborOffsetsExclusive ==
    {d \in (0 .. 2) \X (0 .. 1) : ~(d[1] = 1 /\ d[2] = 1)}

\* the (dx, dy) pairs of the two inner loops, the centre skipped
NeighborOffsets ==
    {d \in (0 .. 2) \X (0 .. 2) : ~(d[1] = 1 /\ d[2] = 1)}

\* value written into a cell flagged as edge bug
EdgeBugFill == "Freeze"

\* neighbor_x = x + dx - 1 (and y alike) overflows for some (dx, dy)
NeighborUnderflows(x, y) ==
    \E d \in NeighborOffsets :
        Underflows(x + d[1], 1) \/ Underflows(y + d[2], 1)

\* mutant: any neighbour that is not Empty counts, Freeze included
NeighborIsNotEmpty(grid, x, y, d) ==
    LET neighbor_x == USub(x + d[1], 1)
        neighbor_y == USub(y + d[2], 1)
    IN  /\ neighbor_x < Width
        /\ neighbor_y < Height
        /\ grid[<<neighbor_x, neighbor_y>>] # "Empty"

\* the bounds test and read of one neighbour
NeighborIsHookable(grid, x, y, d) ==
    LET neighbor_x == USub(x + d[1], 1)
        neighbor_y == USub(y + d[2], 1)
    IN  /\ neighbor_x < Width
        /\ neighbor_y < Height
        /\ grid[<<neighbor_x, neighbor_y>>] = "Hookable"

\* body of the two outer loops for one cell; st = [grid, edge_bug, status,
\* wrapped]; checked = the build panics on arithmetic overflow
FixCell(st, x, y, checked) ==
    IF st.status # "ok" \/ st.grid[<<x, y>>] # "Empty" THEN st
    ELSE IF checked /\ NeighborUnderflows(x, y)
         THEN [st EXCEPT !.status = "panic"]
    ELSE LET w == [st EXCEPT !.wrapped = @ \/ NeighborUnderflows(x, y)]
         IN  IF \E d \in NeighborOffsets : NeighborIsHookable(st.grid, x, y, d)
             THEN [w EXCEPT !.edge_bug[<<x, y>>] = TRUE,
                            !.grid[<<x, y>>] = EdgeBugFill]
             ELSE w

\* for x in 0..width { for y in 0..height { ... } }, from the k-th cell on
RECURSIVE FixScan(_, _, _)
FixScan(st, k, checked) ==
    IF st.status # "ok" \/ k >= Width * Height THEN st
    ELSE FixScan(FixCell(st, k \div Height, k % Height, checked), k + 1, checked)

FixEdgeBugs(grid, checked) ==
    FixScan([grid |-> grid, edge_bug |-> NoEdgeBugs, status |-> "ok",
             wrapped |-> FALSE], 0, checked)

----------------------------------------------------------------------------
(* Generator::generate_room                                                *)

\* the four set_area calls in order; the room of a debug build stops at the
\* first call whose arguments overflow
GenerateRoom(grid, pos, margin, zone_type, checked) ==
    LET x == pos[1]
        y == pos[2]
        u_carve  == Underflows(x, margin) \/ Underflows(y, margin)
        u_plat   == Underflows(x, margin - 2)
        u_spawns == zone_type = "Start"
                    /\ (Underflows(x, margin - 2) \/ Underflows(y, 1))
        u_border == \/ Underflows(x, margin) \/ Underflows(USub(x, margin), 1)
                    \/ Underflows(y, margin) \/ Underflows(USub(y, margin), 1)
        carved   == SetArea(grid,
                            <<USub(x, margin), USub(y, margin)>>,
                            <<x + margin, y + margin>>, "Empty", TRUE)
        platform == SetArea(carved,
                            <<USub(x, margin - 2), y>>,
                            <<x + (margin - 2), y>>, "Hookable", TRUE)
        spawns   == IF zone_type = "Start"
                    THEN SetArea(platform,
                                 <<USub(x, margin - 2), USub(y, 1)>>,
                                 <<x + (margin - 2), USub(y, 1)>>, "Spawn", TRUE)
                    ELSE platform
        border   == SetAreaBorder(spawns,
                                  <<USub(USub(x, margin), 1), USub(USub(y, margin), 1)>>,
                                  <<x + margin + 1, y + margin + 1>>, zone_type, FALSE)
    IN  IF checked /\ u_carve THEN [grid |-> grid, status |-> "panic", wrapped |-> FALSE]
        ELSE IF checked /\ u_plat THEN [grid |-> carved, status |-> "panic", wrapped |-> FALSE]
        ELSE IF checked /\ u_spawns THEN [grid |-> platform, status |-> "panic", wrapped |-> FALSE]
        ELSE IF checked /\ u_border THEN [grid |-> spawns, status |-> "panic", wrapped |-> FALSE]
        ELSE [grid |-> border, status |-> "ok",
              wrapped |-> u_carve \/ u_plat \/ u_spawns \/ u_border]

----------------------------------------------------------------------------
(* GenerationConfig                                                        *)

\* GenerationConfig::validate; an Option::unwrap on None panics
Validate(cfg) ==
    IF cfg.inner_size_probs.values = None THEN "panic"
    ELSE IF \E k \in 1 .. Len(Unwrap(cfg.inner_size_probs.values)) :
                Unwrap(cfg.inner_size_probs.values)[k] = 0
         THEN "Err(inner_size = 0)"
    ELSE IF cfg.fade_max_size = 0 \/ cfg.fade_min_size = 0
         THEN "Err(fade kernel sizes)"
    ELSE IF cfg.max_subwaypoint_dist <= 0
         THEN "Err(max subwaypoint distance)"
    ELSE "Ok"

\* GenerationConfig::default(), the fields the model reads; probabilities
\* and distances are scaled to integers
DefaultConfig ==
    [shift_weights         |-> <<40, 22, 20, 18>>,
     waypoint_reached_dist |-> 250,
     inner_size_probs      |-> [values |-> Some(<<3, 5>>)],
     outer_margin_probs    |-> [values |-> Some(<<0, 2>>)],
     fade_max_size         |-> 6,
     fade_min_size         |-> 3,
     max_subwaypoint_dist  |-> 50]

\* a config that draws small kernels and counts a waypoint as reached only
\* on it
GreedyConfig ==
    [DefaultConfig EXCEPT !.waypoint_reached_dist = 0,
                          !.inner_size_probs.values = Some(<<1, 3>>),
                          !.outer_margin_probs.values = Some(<<0, 1>>)]

\* a config with one kernel size and no outer margin
WanderConfig ==
    [DefaultConfig EXCEPT !.waypoint_reached_dist = 0,
                          !.inner_size_probs.values = Some(<<3>>),
                          !.outer_margin_probs.values = Some(<<0>>)]

\* a config with the three fields Generator::new reads and the config
\* struct at hand does not declare: the (lo, hi) size bounds of both kernels
\* and the weights handed to the sampler; their values are inputs
WithGeneratorFields(cfg, inner_bounds, outer_bounds, weights) ==
    [inner_size_bounds |-> inner_bounds,
     outer_size_bounds |-> outer_bounds,
     step_weights      |-> weights] @@ cfg

DefaultProfile ==
    WithGeneratorFields(DefaultConfig, <<3, 5>>, <<3, 9>>, <<40, 22, 20, 18>>)

\* all weight on the best direction
GreedyProfile ==
    WithGeneratorFields(GreedyConfig, <<1, 3>>, <<1, 5>>, <<100, 0, 0, 0>>)

\* every direction can be drawn
WanderProfile ==
    WithGeneratorFields(WanderConfig, <<3, 3>>, <<3, 3>>, <<40, 22, 20, 18>>)

\* a profile validate rejects
ZeroFadeProfile == [GreedyProfile EXCEPT !.fade_max_size = 0]

\* waypoints of the map skeleton: two cells left of the spawn, and on the
\* map edge
NearWaypoints == <<Spawn, <<SpawnX - 2, SpawnY>>>>
EdgeWaypoints == <<Spawn, <<0, SpawnY>>>>

\* the runs explored: a config and the waypoints its walker follows
Profiles ==
    {<<GreedyProfile, NearWaypoints>>, <<ZeroFadeProfile, NearWaypoints>>,
     <<WanderProfile, EdgeWaypoints>>, <<DefaultProfile, EdgeWaypoints>>}

----------------------------------------------------------------------------
(* CuteWalker, Kernel, Random                                              *)

DistSq(a, b) == (a[1] - b[1]) * (a[1] - b[1]) + (a[2] - b[2]) * (a[2] - b[2])

ShiftDirections == {<<-1, 0>>, <<1, 0>>, <<0, -1>>, <<0, 1>>}

Shifted(pos, dir) == <<pos[1] + dir[1], pos[2] + dir[2]>>

\* a kernel is kept as its size; it covers the square of `size` cells per
\* side around the position
InKernel(c, pos, size) ==
    LET offset == size \div 2
    IN  /\ c[1] >= pos[1] - offset /\ c[1] <= pos[1] - offset + size - 1
        /\ c[2] >= pos[2] - offset /\ c[2] <= pos[2] - offset + size - 1

\* the stamp lies inside the grid
KernelFits(pos, size) ==
    LET offset == size \div 2
    IN  /\ InBounds(<<pos[1] - offset, pos[2] - offset>>)
        /\ InBounds(<<pos[1] - offset + size - 1, pos[2] - offset + size - 1>>)

\* CuteWalker::new(spawn, inner_kernel, outer_kernel, ..): at the spawn,
\* heading for the first waypoint
NewWalker(spawn, inner, outer, waypoints) ==
    [pos          |-> spawn,
     finished     |-> FALSE,
     waypoints    |-> waypoints,
     goal_index   |-> 1,
     goal         |-> waypoints[1],
     inner_kernel |-> inner,
     outer_kernel |-> outer,
     steps        |-> 0]

\* Random::new(seed, weights)
NewRandom(weights) == [weights |-> weights, draws |-> 0]

\* CuteWalker::is_goal_reached: None without a goal
IsGoalReached(w, cfg) ==
    IF w.goal = NoGoal THEN "None"
    ELSE IF DistSq(w.pos, w.goal) <= cfg.waypoint_reached_dist
         THEN "Some(true)" ELSE "Some(false)"

\* CuteWalker::next_waypoint: finished when no waypoint is left
NextWaypoint(w, cfg) ==
    IF w.goal_index + 1 <= Len(w.waypoints)
    THEN [w EXCEPT !.goal_index = @ + 1, !.goal = w.waypoints[w.goal_index + 1]]
    ELSE [w EXCEPT !.finished = TRUE, !.goal = NoGoal]

\* directions the rank-indexed weight table can draw: a direction may take
\* any rank its distance to the goal allows (ties in any order)
AllowedDirs(w, r) ==
    IF w.goal = NoGoal THEN ShiftDirections
    ELSE {d \in ShiftDirections :
            LET dist(e) == DistSq(Shifted(w.pos, e), w.goal)
                better  == Cardinality({e \in ShiftDirections : dist(e) < dist(d)})
                notworse == Cardinality({e \in ShiftDirections : dist(e) <= dist(d)})
            IN  \E rank \in (better + 1) .. notworse : r.weights[rank] > 0}

\* kernels CuteWalker::mutate_kernel can leave, <<inner size, outer size>>:
\* each kernel persists or is replaced, the outer one by the inner size
\* plus a drawn margin on both sides
MutatedKernels(w, cfg) ==
    {k \in UNION {{<<size, w.outer_kernel>>} \cup
                  {<<size, size + 2 * m>> :
                      m \in OptionRange(cfg.outer_margin_probs.values)} :
                  size \in {w.inner_kernel} \cup
                           OptionRange(cfg.inner_size_probs.values)} : TRUE}

\* the inner kernel carves Empty, the outer kernel Freeze on solid cells only
Carve(grid, pos, inner, outer) ==
    [c \in Cells |->
        IF InKernel(c, pos, inner) THEN "Empty"
        ELSE IF InKernel(c, pos, outer) /\ grid[c] = "Hookable" THEN "Freeze"
        ELSE grid[c]]

\* CuteWalker::probabilistic_step for one drawn direction; fails when the
\* walker or its stamp would leave the grid
ProbabilisticStep(w, grid, r, dir) ==
    LET next_pos == Shifted(w.pos, dir)
    IN  IF \/ ~InBounds(next_pos)
           \/ ~KernelFits(next_pos, w.inner_kernel)
           \/ ~KernelFits(next_pos, w.outer_kernel)
        THEN [walker |-> w, grid |-> grid,
              rnd |-> [r EXCEPT !.draws = @ + 2], result |-> "Err"]
        ELSE [walker |-> [w EXCEPT !.pos = next_pos, !.steps = @ + 1],
              grid   |-> Carve(grid, next_pos, w.inner_kernel, w.outer_kernel),
              rnd    |-> [r EXCEPT !.draws = @ + 2],
              result |-> "Ok"]

----------------------------------------------------------------------------
(* Generator::step                                                         *)

\* if self.walker.is_goal_reached() == Some(true) { next_waypoint() }
GoalCheck(w, cfg) ==
    IF IsGoalReached(w, cfg) = "Some(true)" THEN NextWaypoint(w, cfg) ELSE w

\* mutant: the finished test is missing
WalkAlways(w) == TRUE

\* if !self.walker.finished
WalkAllowed(w) == ~w.finished

\* the outcomes of one call of step: [walker, grid, rnd, result]
Step(w, grid, r, cfg) ==
    LET w1 == GoalCheck(w, cfg)
    IN  IF ~WalkAllowed(w1)
        THEN {[walker |-> w1, grid |-> grid, rnd |-> r, result |-> "Ok"]}
        ELSE {ProbabilisticStep([w1 EXCEPT !.inner_kernel = k[1],
                                           !.outer_kernel = k[2]],
                                grid, r, dir) :
                k \in MutatedKernels(w1, cfg), dir \in AllowedDirs(w1, r)}

----------------------------------------------------------------------------
(* Generator::new and the initial states                                   *)

NoResult == "not called"

\* the second component of a (lo, hi) pair: `bounds.1`
UpperBound(bounds) == bounds[2]

\* Generator::new(gen_cfg, seed) for a walker following `waypoints`; the
\* run is entered at `at` with the config `cfg` at hand. The kernels'
\* circularities (0.0 and 0.1) and the seed are abstracted: kernels are
\* squares and every draw is explored
Start(cfg, gen_cfg, waypoints, n, at) ==
    /\ pc = at
    /\ config = cfg
    /\ max_steps = n
    /\ iter = 0
    /\ walker = NewWalker(Spawn,
                          UpperBound(gen_cfg.inner_size_bounds),
                          UpperBound(gen_cfg.outer_size_bounds),
                          waypoints)
    /\ map = NewMap
    /\ rnd = NewRandom(gen_cfg.step_weights)
    /\ wrapped = FALSE
    /\ step_calls = 0
    /\ late_calls = 0
    /\ pp_runs = 0
    /\ pre_grid = NewMap.grid
    /\ edge_bug = NoEdgeBugs
    /\ validate_result = NoResult

\* generate_map(max_steps, seed, config), or a caller that owns a Generator
\* and calls step itself
Init ==
    \/ \E p \in Profiles, n \in 0 .. MaxSteps : Start(p[1], p[1], p[2], n, "loop")
    \/ \E p \in Profiles : Start(p[1], p[1], p[2], 0, "caller")

\* builds a wrapped subtraction can still come from: a run that has wrapped
\* is a release build, any other run may be either
Builds == IF wrapped THEN {FALSE} ELSE {TRUE, FALSE}

----------------------------------------------------------------------------
(* Generator::generate_map                                                 *)

\* mutant: the `break` on a finished walker is missing
LoopToBudget(i, n, w) == i < n

\* the loop goes on: `for _ in 0..max_steps` and no `break`
LoopContinues(i, n, w) == i < n /\ ~w.finished

\* the step result is an error and `?` returns it
Propagates(result) == result = "Err"

CallOfStep(out) ==
    /\ walker' = out.walker
    /\ map' = [map EXCEPT !.grid = out.grid]
    /\ rnd' = out.rnd
    /\ step_calls' = step_calls + 1
    /\ late_calls' = IF walker.finished THEN late_calls + 1 ELSE late_calls

\* one iteration: gen.step(&config)?
LoopStep ==
    /\ pc = "loop"
    /\ LoopContinues(iter, max_steps, walker)
    /\ \E out \in Step(walker, map.grid, rnd, config) :
          /\ CallOfStep(out)
          /\ IF Propagates(out.result)
             THEN pc' = "error" /\ iter' = iter
             ELSE pc' = "loop" /\ iter' = iter + 1
    /\ UNCHANGED <<config, max_steps, wrapped, pp_runs, pre_grid, edge_bug,
                   validate_result>>

\* the loop is left and gen.post_processing() is called
LoopExit ==
    /\ pc = "loop"
    /\ ~LoopContinues(iter, max_steps, walker)
    /\ pc' = "fix_edge_bugs"
    /\ pp_runs' = pp_runs + 1
    /\ UNCHANGED <<config, max_steps, iter, walker, map, rnd, wrapped,
                   step_calls, late_calls, pre_grid, edge_bug, validate_result>>

\* post_processing: self.fix_edge_bugs()
PostFixEdgeBugs ==
    /\ pc = "fix_edge_bugs"
    /\ \E checked \in Builds :
          LET st == FixEdgeBugs(map.grid, checked)
          IN  /\ map' = [map EXCEPT !.grid = st.grid]
              /\ edge_bug' = st.edge_bug
              /\ wrapped' = (wrapped \/ st.wrapped)
              /\ pc' = IF st.status = "ok" THEN "room_start" ELSE "panic"
    /\ pre_grid' = map.grid
    /\ UNCHANGED <<config, max_steps, iter, walker, rnd, step_calls,
                   late_calls, pp_runs, validate_result>>

Room(pos, zone_type, next) ==
    /\ \E checked \in Builds :
          LET st == GenerateRoom(map.grid, pos, RoomMargin, zone_type, checked)
          IN  /\ map' = [map EXCEPT !.grid = st.grid]
              /\ wrapped' = (wrapped \/ st.wrapped)
              /\ pc' = IF st.status = "ok" THEN next ELSE "panic"
    /\ UNCHANGED <<config, max_steps, iter, walker, rnd, step_calls,
                   late_calls, pp_runs, pre_grid, edge_bug, validate_result>>

\* post_processing: generate_room(&self.map.spawn, 4, Start)
PostRoomStart == pc = "room_start" /\ Room(map.spawn, "Start", "room_finish")

\* post_processing: generate_room(&self.walker.pos, 4, Finish); Ok(gen.map)
PostRoomFinish == pc = "room_finish" /\ Room(walker.pos, "Finish", "done")

\* a caller that holds the Generator calls step, finished or not
CallStep ==
    /\ pc = "caller"
    /\ step_calls < MaxSteps
    /\ late_calls < MaxLateCalls
    /\ \E out \in Step(walker, map.grid, rnd, config) :
          /\ CallOfStep(out)
          /\ pc' = IF out.result = "Err" THEN "caller_error" ELSE "caller"
    /\ UNCHANGED <<config, max_steps, iter, wrapped, pp_runs, pre_grid,
                   edge_bug, validate_result>>

Next ==
    \/ LoopStep
    \/ LoopExit
    \/ PostFixEdgeBugs
    \/ PostRoomStart
    \/ PostRoomFinish
    \/ CallStep

Spec == Init /\ [][Next]_vars

----------------------------------------------------------------------------
(* GenerationConfig::validate on its own                                   *)

MaxValues == 2

InnerSizeLists ==
    {None} \cup {Some(v) : v \in UNION {[1 .. n -> {0, 1, 3}] : n \in 0 .. MaxValues}}

ValidateConfigs ==
    {[DefaultConfig EXCEPT !.inner_size_probs.values = v, !.fade_max_size = fmax,
                           !.fade_min_size = fmin, !.max_subwaypoint_dist = d] :
        v \in InnerSizeLists, fmax \in {0, 6}, fmin \in {0, 3}, d \in {-1, 0, 50}}

\* validate is called on a config alone; the Generator variables hold an
\* unused Generator
InitValidate ==
    \E cfg \in ValidateConfigs :
        Start(cfg, GreedyProfile, NearWaypoints, 0, "validate")

CallValidate ==
    /\ pc = "validate"
    /\ validate_result' = Validate(config)
    /\ pc' = "validated"
    /\ UNCHANGED <<config, max_steps, iter, walker, map, rnd, wrapped,
                   step_calls, late_calls, pp_runs, pre_grid, edge_bug>>

SpecValidate == InitValidate /\ [][CallValidate]_vars

----------------------------------------------------------------------------
(* Properties                                                              *)

InGenerateMap ==
    pc \in {"loop", "fix_edge_bugs", "room_start", "room_finish", "done",
            "error", "panic"}

InPostProcessing ==
    pc \in {"fix_edge_bugs", "room_start", "room_finish", "done", "panic"}

\* the in-grid 8 neighbours of a cell
Neighbours8(c) ==
    {n \in Cells : n # c /\ n[1] - c[1] \in -1 .. 1 /\ n[2] - c[2] \in -1 .. 1}

Neighbours4(c) ==
    {n \in Cells : (n[1] - c[1]) * (n[1] - c[1]) + (n[2] - c[2]) * (n[2] - c[2]) = 1}

EmptyNextToHookable(grid) ==
    \E c \in Cells : grid[c] = "Empty"
                     /\ \E n \in Neighbours8(c) : grid[n] = "Hookable"

\* C1 as claimed: after post_processing (repair and both rooms) no Empty
\* cell has a Hookable cell among its in-grid 8 neighbours.
BufferAfterPostProcessing == pc = "done" => ~EmptyNextToHookable(map.grid)

\* C1 as amended: when fix_edge_bugs has returned, before generate_room
\* carves, no Empty cell has a Hookable cell among its in-grid 8 neighbours.
BufferAfterFixEdgeBugs == pc = "room_start" => ~EmptyNextToHookable(map.grid)

BufferRepaired ==
    /\ pc = "room_start"
    /\ \E c \in Cells : edge_bug[c]
    /\ \E c \in Cells : map.grid[c] = "Empty"

Cheb(a, b) ==
    LET dx == IF a[1] >= b[1] THEN a[1] - b[1] ELSE b[1] - a[1]
        dy == IF a[2] >= b[2] THEN a[2] - b[2] ELSE b[2] - a[2]
    IN  IF dx >= dy THEN dx ELSE dy

RECURSIVE Flood(_, _, _)
Flood(grid, seen, frontier) ==
    IF frontier = {} THEN seen
    ELSE LET next == {n \in Cells \ seen :
                        grid[n] = "Empty" /\ \E f \in frontier : n \in Neighbours4(f)}
         IN  Flood(grid, seen \cup next, next)

Touches(grid, region, type) ==
    \E e \in region : \E n \in Neighbours4(e) : grid[n] = type

\* C2: in the grid generate_map returns the Empty cells are one connected
\* region, and that region touches a Spawn cell and a Finish cell.
EmptyRegionLinksSpawnToFinish ==
    pc = "done" =>
        LET empty == {c \in Cells : map.grid[c] = "Empty"}
        IN  /\ empty # {}
            /\ LET seed == CHOOSE c \in empty : TRUE
               IN  Flood(map.grid, {seed}, {seed}) = empty
            /\ Touches(map.grid, empty, "Spawn")
            /\ Touches(map.grid, empty, "Finish")

\* C4: with a config validate rejects, generate_map makes no call of step,
\* changes no cell and goes on to nothing but an error return.
InvalidConfigRefused ==
    (InGenerateMap /\ Validate(config) # "Ok") =>
        /\ step_calls = 0
        /\ map.grid = NewMap.grid
        /\ pc \in {"loop", "error"}

IsErr(result) == result \notin {"Ok", "panic", NoResult}

\* C5: validate always returns, and returns an error exactly when the inner
\* size list holds a 0, a fade size is 0 or max_subwaypoint_dist <= 0.
ValidateRejectsExactly ==
    pc = "validated" =>
        /\ validate_result # "panic"
        /\ IsErr(validate_result) <=>
              \/ 0 \in OptionRange(config.inner_size_probs.values)
              \/ config.fade_max_size = 0
              \/ config.fade_min_size = 0
              \/ config.max_subwaypoint_dist <= 0

\* C6: a call of step on a finished walker returns Ok and changes neither
\* walker, map nor sampler; finished never goes back to false.
FinishedIsTerminal ==
    [][/\ walker.finished => walker'.finished
       /\ (walker.finished /\ step_calls' # step_calls) =>
             /\ walker' = walker
             /\ map' = map
             /\ rnd' = rnd
             /\ pc' = pc]_vars

StepOnFinishedWalker ==
    pc = "caller" /\ walker.finished /\ late_calls >= 1

\* C7: the returned grid holds the Spawn line above the spawn platform, the
\* whole Start ring around the spawn room and the whole Finish ring around
\* the room at the walker's final position.
RoomMarkersIntact ==
    pc = "done" =>
        /\ \A c \in Cells :
              (/\ c[2] = SpawnY - 1
               /\ c[1] >= SpawnX - (RoomMargin - 2)
               /\ c[1] <= SpawnX + (RoomMargin - 2))
                 => map.grid[c] = "Spawn"
        /\ \A c \in Cells : Cheb(c, Spawn) = RoomMargin + 1 => map.grid[c] = "Start"
        /\ \A c \in Cells : Cheb(c, walker.pos) = RoomMargin + 1 => map.grid[c] = "Finish"

\* C8: generate_map calls step at most max_steps times and never on a
\* finished walker; post_processing has run once when the loop was left
\* (walker finished or budget used up) and not at all before that or after
\* a step failed.
StepLoopThenPostProcessing ==
    InGenerateMap =>
        /\ step_calls <= max_steps
        /\ late_calls = 0
        /\ pc = "loop" => (pp_runs = 0 /\ step_calls = iter)
        /\ pc = "error" => (pp_runs = 0 /\ step_calls = iter + 1)
        /\ InPostProcessing =>
              /\ pp_runs = 1
              /\ step_calls = iter
              /\ walker.finished \/ iter = max_steps

BreakOnFinished ==
    pc = "done" /\ walker.finished /\ step_calls < max_steps /\ pp_runs = 1

\* C9: no coordinate of fix_edge_bugs or generate_room underflows.
NoUnderflow == InGenerateMap => (~wrapped /\ pc # "panic")

\* cells the repair has to convert, on the grid as it was before the pass
WasEdgeBug(c) ==
    pre_grid[c] = "Empty" /\ \E n \in Neighbours8(c) : pre_grid[n] = "Hookable"

\* C10: when fix_edge_bugs has returned, the cells now Freeze instead of
\* their old type are exactly the cells that were Empty with a Hookable
\* 8-neighbour when the pass began, all others are unchanged, and the mask
\* is true on exactly those cells.
RepairEqualsSnapshot ==
    pc = "room_start" =>
        \A c \in Cells :
            /\ edge_bug[c] = WasEdgeBug(c)
            /\ map.grid[c] = IF WasEdgeBug(c) THEN "Freeze" ELSE pre_grid[c]

RepairConvertsSome ==
    /\ pc = "room_start"
    /\ \E c \in Cells : WasEdgeBug(c) /\ map.grid[c] = "Freeze"
    /\ \E c \in Cells : pre_grid[c] = "Empty" /\ ~WasEdgeBug(c)
    /\ \E c \in Cells : pre_grid[c] = "Freeze"

====
